---- MODULE Spec2Model ----
(***************************************************************************)
(* Model of rr10.py: the Message frame (a bytearray with a length byte, a  *)
(* command byte, parameters and a two-byte little-endian checksum) and the *)
(* RR10 serial handshake.                                                  *)
(*                                                                         *)
(* Sequences are 1-based here and 0-based in the source: the byte at       *)
(* Python offset k is buf[k + 1].                                          *)
(***************************************************************************)
EXTENDS Integers, Sequences, FiniteSets, TLC

(***************************************************************************)
(* Class constants of Message.                                             *)
(***************************************************************************)
INDEX_LENGTH == 0
INDEX_COMMAND == 1
INDEX_PARAMETERS == 2
INDEX_CHECKSUM == -2
MIN_LENGTH == 4
MAX_LENGTH == 255
MAX_PARAMETERS == 251

\* The values of the COMMAND_* class attributes, as get_commands().values().
get_commands == {1, 2, 3, 6, 7, 8, 9, 10, 11, 12, 13, 14, 15, 32, 33}

(***************************************************************************)
(* Bounds of the model.                                                    *)
(***************************************************************************)
\* Calls made in one run: a constructor, then calls on the Message it returned.
MaxCalls == 3
\* Short parameter sequences have 0..MaxShort bytes.
MaxShort == 1

(***************************************************************************)
(* The built-in bytearray operations the source relies on.                 *)
(***************************************************************************)
Min(a, b) == IF a < b THEN a ELSE b
Max(a, b) == IF a > b THEN a ELSE b

\* bytearray(n): n zero bytes.
Zeros(n) == [i \in 1..n |-> 0]

\* A slice bound of Python, clamped to 0..L (negative bounds count from the end).
Bound(i, L) == IF i < 0 THEN Max(L + i, 0) ELSE Min(i, L)

\* s[a:b]
GetSlice(s, a, b) == SubSeq(s, Bound(a, Len(s)) + 1, Bound(b, Len(s)))

\* s[a:b] = v (the sequence is resized when Len(v) differs from the slice's).
SetSlice(s, a, b, v) ==
    LET lo == Bound(a, Len(s))
        hi == Max(Bound(b, Len(s)), lo)
    IN  SubSeq(s, 1, lo) \o v \o SubSeq(s, hi + 1, Len(s))

\* sum(s[lo..hi]), by halves (the depth of the recursion stays logarithmic).
RECURSIVE SumRange(_, _, _)
SumRange(s, lo, hi) ==
    IF lo > hi THEN 0
    ELSE IF lo = hi THEN s[lo]
    ELSE LET mid == (lo + hi) \div 2
         IN  SumRange(s, lo, mid) + SumRange(s, mid + 1, hi)

\* sum(s)
Sum(s) == SumRange(s, 1, Len(s))

\* The outcome of a call: err is "ok" or the exception raised, buf the bytearray
\* as the call leaves it.
Ok(buf) == [err |-> "ok", buf |-> buf]
Raise(e, buf) == [err |-> e, buf |-> buf]

(***************************************************************************)
(* Message: checksum, length, command and parameters.                      *)
(***************************************************************************)
\* The checksum property: self[INDEX_CHECKSUM:]
checksum(buf) == GetSlice(buf, INDEX_CHECKSUM, Len(buf))

\* The length property: self[INDEX_LENGTH]
length(buf) == buf[INDEX_LENGTH + 1]

\* The command property: self[INDEX_COMMAND]
command(buf) == buf[INDEX_COMMAND + 1]

\* int.to_bytes(1, 'little') raises OverflowError above 255.
Overflows_one_byte(buf) == Sum(GetSlice(buf, 0, INDEX_CHECKSUM)) > 255

\* int.to_bytes(2, 'little') raises OverflowError above 65535.
Overflows(buf) == Sum(GetSlice(buf, 0, INDEX_CHECKSUM)) > 65535

\* get_checksum, where it does not raise.
get_checksum(buf) ==
    LET t == Sum(GetSlice(buf, 0, INDEX_CHECKSUM))
    IN  <<t % 256, t \div 256>>

\* _update_checksum leaving the checksum as it is.
update_checksum_skipped(buf) == Ok(buf)

\* _update_checksum
update_checksum(buf) ==
    IF Overflows(buf) THEN Raise("OverflowError", buf)
    ELSE Ok(SetSlice(buf, INDEX_CHECKSUM, Len(buf), get_checksum(buf)))

\* _update_length leaving the length byte as it is.
update_length_skipped(buf) == update_checksum(buf)

\* _update_length: an item of a bytearray is in 0..255, and index 0 must exist.
update_length(buf) ==
    IF Len(buf) = 0 THEN Raise("IndexError", buf)
    ELSE IF Len(buf) > 255 THEN Raise("ValueError", buf)
    ELSE update_checksum([buf EXCEPT ![INDEX_LENGTH + 1] = Len(buf)])

\* The command setter storing the opcode before it checks it.
command_setter_write_first(buf, cmd) ==
    IF Len(buf) <= INDEX_COMMAND THEN Raise("IndexError", buf)
    ELSE IF cmd \notin get_commands
    THEN Raise("InvalidCommand", [buf EXCEPT ![INDEX_COMMAND + 1] = cmd % 256])
    ELSE update_checksum([buf EXCEPT ![INDEX_COMMAND + 1] = cmd])

\* The command setter storing the opcode at INDEX_PARAMETERS.
command_setter_wrong_index(buf, cmd) ==
    IF cmd \notin get_commands THEN Raise("InvalidCommand", buf)
    ELSE IF Len(buf) <= INDEX_PARAMETERS THEN Raise("IndexError", buf)
    ELSE update_checksum([buf EXCEPT ![INDEX_PARAMETERS + 1] = cmd])

\* The command setter.
command_setter(buf, cmd) ==
    IF cmd \notin get_commands THEN Raise("InvalidCommand", buf)
    ELSE IF Len(buf) <= INDEX_COMMAND THEN Raise("IndexError", buf)
    ELSE update_checksum([buf EXCEPT ![INDEX_COMMAND + 1] = cmd])

\* The parameters setter refusing MAX_PARAMETERS bytes too.
parameters_setter_off_by_one(buf, value) ==
    IF Len(value) >= MAX_PARAMETERS THEN Raise("TooManyParameters", buf)
    ELSE update_length(
           SetSlice(buf \o Zeros(Max((Len(value) + MIN_LENGTH) - Len(buf), 0)),
                    INDEX_PARAMETERS, INDEX_CHECKSUM, value))

\* The parameters setter, up to the update of the _parameters attribute.
\* bytearray(n) raises ValueError for a negative n.
parameters_setter(buf, value) ==
    IF Len(value) > MAX_PARAMETERS THEN Raise("TooManyParameters", buf)
    ELSE
      LET d == (Len(value) + MIN_LENGTH) - Len(buf)
      IN  IF d < 0 THEN Raise("ValueError", buf)
          ELSE update_length(
                 SetSlice(buf \o Zeros(d), INDEX_PARAMETERS, INDEX_CHECKSUM, value))

\* Message(command, *parameters)
new(cmd, parameters) ==
    LET r == command_setter(Zeros(MIN_LENGTH + Len(parameters)), cmd)
    IN  IF r.err # "ok" THEN r ELSE parameters_setter(r.buf, parameters)

\* Message.version() built with COMMAND_CONNECTION.
version_wrong_command == new(1, <<>>)

\* Message.version()
version == new(3, <<>>)

\* Message.test()
test == new(1, <<5, 10>>)

\* Message(bytes) comparing the checksum before the length.
from_bytes_checksum_first(raw) ==
    IF Len(raw) > MAX_LENGTH THEN Raise("FrameTooLong", raw)
    ELSE IF get_checksum(raw) # checksum(raw) THEN Raise("ChecksumMismatch", raw)
    ELSE IF Len(raw) = 0 THEN Raise("IndexError", raw)
    ELSE IF Len(raw) # length(raw) THEN Raise("LengthMismatch", raw)
    ELSE Ok(raw)

\* Message(bytes) refusing MAX_LENGTH bytes too.
from_bytes_strict_length(raw) ==
    IF Len(raw) >= MAX_LENGTH THEN Raise("FrameTooLong", raw)
    ELSE IF Len(raw) = 0 THEN Raise("IndexError", raw)
    ELSE IF Len(raw) # length(raw) THEN Raise("LengthMismatch", raw)
    ELSE IF get_checksum(raw) # checksum(raw) THEN Raise("ChecksumMismatch", raw)
    ELSE Ok(raw)

\* Message(bytes)
from_bytes(raw) ==
    IF Len(raw) > MAX_LENGTH THEN Raise("FrameTooLong", raw)
    ELSE IF Len(raw) = 0 THEN Raise("IndexError", raw)
    ELSE IF Len(raw) # length(raw) THEN Raise("LengthMismatch", raw)
    ELSE IF Overflows(raw) THEN Raise("OverflowError", raw)
    ELSE IF get_checksum(raw) # checksum(raw) THEN Raise("ChecksumMismatch", raw)
    ELSE Ok(raw)

(***************************************************************************)
(* State.  The caller constructs one Message and then works on it, holding *)
(* at most one reference to a ParametersArray obtained from the getter.    *)
(***************************************************************************)
VARIABLES
    alive,      \* the caller holds a Message
    frame,      \* the bytes of that Message
    cache,      \* its _parameters attribute
    held,       \* the ParametersArray the caller holds
    same,       \* the held ParametersArray is the object in _parameters
    ncalls,     \* calls made so far
    hist,       \* the last call: operation, arguments, outcome, bytes before
    incoming,   \* the bytes the reader will yield to serial.read, in order
    link        \* the last call on the RR10: its reads, writes and outcome

fvars == <<alive, frame, cache, held, same, ncalls, hist>>
lvars == <<incoming, link>>
vars == <<alive, frame, cache, held, same, ncalls, hist, incoming, link>>

NoView == [set |-> FALSE, val |-> <<>>]
View(v) == [set |-> TRUE, val |-> v]

Call(op, cmd, arg, result, before) ==
    [op |-> op, cmd |-> cmd, arg |-> arg, result |-> result, before |-> before]

(***************************************************************************)
(* Inputs.                                                                 *)
(***************************************************************************)
Ramp(n, b) == [i \in 1..n |-> (b + i - 1) % 256]
Fill(n, b) == [i \in 1..n |-> b]

ParamLens == (0..MaxShort) \cup {MAX_PARAMETERS, MAX_PARAMETERS + 1}
ParamInputs == {Ramp(n, 1) : n \in ParamLens} \cup {Fill(MAX_PARAMETERS, 255)}

\* Registered opcodes and opcodes that are not registered.
CommandInputs == {1, 3, 33} \cup {0, 30}

ByteInputs == {0, 255}

\* Raw sequences of up to MIN_LENGTH bytes.
SmallBytes == {0, 3, 4, 7}
ShortRaws == UNION {[1..n -> SmallBytes] : n \in 0..MIN_LENGTH}
LongRaws == {Zeros(MAX_LENGTH + 1), [Zeros(MAX_LENGTH + 1) EXCEPT ![1] = MAX_LENGTH]}

\* The bytes of f with the byte at Python offset k replaced by another value.
TamperDeltas == {1, 255}
Tampered(f, k) == {[f EXCEPT ![k + 1] = (f[k + 1] + d) % 256] : d \in TamperDeltas}
TamperOffsets(f) == {INDEX_LENGTH, Len(f) - 2, Len(f) - 1}

\* What the caller parses: at first any raw sequence, later the bytes of the
\* Message it holds, as they are or with one byte replaced.
RawInputs ==
    IF alive
    THEN {frame} \cup UNION {Tampered(frame, k) : k \in TamperOffsets(frame)}
    ELSE ShortRaws \cup LongRaws

\* The RR10 between calls: nothing read, nothing written.  counts holds the
\* counts of serial.write that the code looked at.
Idle == [op |-> "none", result |-> "none", reads |-> <<>>, writes |-> <<>>,
         counts |-> <<>>, stream |-> <<>>, returned |-> <<>>]

(***************************************************************************)
(* The calls on a Message.                                                 *)
(***************************************************************************)
Init ==
    /\ alive = FALSE
    /\ frame = <<>>
    /\ cache = NoView
    /\ held = NoView
    /\ same = FALSE
    /\ ncalls = 0
    /\ hist = Call("none", -1, <<>>, "ok", <<>>)
    /\ incoming = <<>>
    /\ link = Idle

\* A constructor that raises leaves the caller with what it had.
Constructed(r, op, cmd, arg, view) ==
    /\ hist' = Call(op, cmd, arg, r.err, frame)
    /\ ncalls' = ncalls + 1
    /\ IF r.err = "ok"
       THEN /\ alive' = TRUE
            /\ frame' = r.buf
            /\ cache' = view
            /\ held' = NoView
            /\ same' = FALSE
       ELSE UNCHANGED <<alive, frame, cache, held, same>>

\* Message(cmd, *parameters); the parameters setter stores a new ParametersArray.
New ==
    /\ ncalls = 0
    /\ \E cmd \in CommandInputs, value \in ParamInputs :
         Constructed(new(cmd, value), "new", cmd, value, View(value))
    /\ UNCHANGED lvars

\* Message.version()
Version ==
    /\ ncalls = 0
    /\ Constructed(version, "version", 3, <<>>, View(<<>>))
    /\ UNCHANGED lvars

\* Message.test()
Test ==
    /\ ncalls = 0
    /\ Constructed(test, "test", 1, <<5, 10>>, View(<<5, 10>>))
    /\ UNCHANGED lvars

\* Message(raw)
FromBytes ==
    /\ ncalls < MaxCalls
    /\ alive \/ ncalls = 0
    /\ \E raw \in RawInputs :
         Constructed(from_bytes(raw), "from_bytes", -1, raw, NoView)
    /\ UNCHANGED lvars

\* message.command = cmd
SetCommand ==
    /\ alive
    /\ ncalls < MaxCalls
    /\ \E cmd \in CommandInputs :
         LET r == command_setter(frame, cmd)
         IN  /\ frame' = r.buf
             /\ hist' = Call("set_command", cmd, <<>>, r.err, frame)
    /\ ncalls' = ncalls + 1
    /\ UNCHANGED <<alive, cache, held, same>>
    /\ UNCHANGED lvars

\* message.parameters = value, value a plain bytearray: _parameters becomes a
\* new ParametersArray.
SetParameters ==
    /\ alive
    /\ ncalls < MaxCalls
    /\ \E value \in ParamInputs :
         LET r == parameters_setter(frame, value)
         IN  /\ frame' = r.buf
             /\ hist' = Call("set_parameters", -1, value, r.err, frame)
             /\ IF r.err = "ok"
                THEN cache' = View(value) /\ same' = FALSE
                ELSE UNCHANGED <<cache, same>>
    /\ ncalls' = ncalls + 1
    /\ UNCHANGED <<alive, held>>
    /\ UNCHANGED lvars

\* The parameters getter: an absent or empty _parameters is replaced by a new
\* ParametersArray over self[INDEX_PARAMETERS:INDEX_CHECKSUM].
parameters(buf, attr) ==
    IF ~attr.set \/ attr.val = <<>>
    THEN View(GetSlice(buf, INDEX_PARAMETERS, INDEX_CHECKSUM))
    ELSE attr

\* p = message.parameters
GetParameters ==
    /\ alive
    /\ cache' = parameters(frame, cache)
    /\ held' = cache'
    /\ same' = TRUE
    /\ hist' = Call("parameters", -1, cache'.val, "ok", frame)
    /\ UNCHANGED <<alive, frame, ncalls>>
    /\ UNCHANGED lvars

\* update_message, after the held ParametersArray has become v: the setter is
\* given the ParametersArray itself and leaves _parameters as it is.
ViewWritten(op, v, arg) ==
    LET r == parameters_setter(frame, v)
    IN  /\ held' = View(v)
        /\ cache' = IF same THEN View(v) ELSE cache
        /\ frame' = r.buf
        /\ hist' = Call(op, -1, arg, r.err, frame)

\* p[k] = b
ViewSetItem ==
    /\ alive
    /\ held.set
    /\ ncalls < MaxCalls
    /\ \E k \in {0, Len(held.val)}, b \in ByteInputs :
         IF k >= Len(held.val)
         THEN /\ hist' = Call("setitem", -1, <<k, b>>, "IndexError", frame)
              /\ UNCHANGED <<frame, cache, held>>
         ELSE ViewWritten("setitem", [held.val EXCEPT ![k + 1] = b], <<k, b>>)
    /\ ncalls' = ncalls + 1
    /\ UNCHANGED <<alive, same>>
    /\ UNCHANGED lvars

\* p.append(b)
ViewAppend ==
    /\ alive
    /\ held.set
    /\ ncalls < MaxCalls
    /\ \E b \in ByteInputs : ViewWritten("append", Append(held.val, b), <<b>>)
    /\ ncalls' = ncalls + 1
    /\ UNCHANGED <<alive, same>>
    /\ UNCHANGED lvars

(***************************************************************************)
(* RR10: the handshake over the serial transport.  serial.read(n) blocks   *)
(* until the reader has yielded n bytes; serial.write(b) returns the       *)
(* number of bytes it wrote.                                               *)
(***************************************************************************)
\* The sentinels of the handshake.
HOST_READY_TO_SEND == 85
READER_READY_TO_RECEIVE == 170
READER_READY_TO_SEND == 165
HOST_READY_TO_RECEIVE == 90

\* The methods RR10 defines.
RR10Methods == {"send", "receive", "prepare_to_send", "ready_to_receive"}

\* serial.read returns a bytes object (receive calls .hex() on it).
ReadType == "bytes"

\* '{:#x}'.format(s): only an int takes the format '#x'; bytes.__format__
\* raises TypeError for any format string but the empty one.
format_hex(type) == IF type = "int" THEN "ok" ELSE "TypeError"

\* The counts serial.write may report for b.
WriteCounts(b) == {0, Len(b)}

\* The message that follows a wrong sentinel: print(...format(s)), return False.
wrong_sentinel == IF format_hex(ReadType) = "ok" THEN "False" ELSE format_hex(ReadType)

\* prepare_to_send, the reader yielding inc: what it read and wrote, its
\* outcome, and what is left to read.
prepare_to_send(inc) ==
    LET s == SubSeq(inc, 1, 1)
    IN  [result |-> IF s # <<READER_READY_TO_RECEIVE>> THEN wrong_sentinel ELSE "True",
         reads |-> <<s>>,
         writes |-> << <<HOST_READY_TO_SEND>> >>,
         counts |-> <<>>,
         rest |-> Tail(inc)]

\* ready_to_receive, the reader yielding inc and serial.write reporting n.
ready_to_receive(inc, n) ==
    LET s == SubSeq(inc, 1, 1)
    IN  IF s # <<READER_READY_TO_SEND>>
        THEN [result |-> wrong_sentinel, reads |-> <<s>>, writes |-> <<>>,
              counts |-> <<>>, rest |-> Tail(inc)]
        ELSE [result |-> IF 1 = n THEN "True" ELSE "False", reads |-> <<s>>,
              writes |-> << <<HOST_READY_TO_RECEIVE>> >>, counts |-> <<n>>,
              rest |-> Tail(inc)]

Returned(op, r, value) ==
    [op |-> op, result |-> r.result, reads |-> r.reads, writes |-> r.writes,
     counts |-> r.counts, stream |-> incoming, returned |-> value]

\* rr10.prepare_to_send()
PrepareToSend ==
    /\ Len(incoming) >= 1
    /\ LET r == prepare_to_send(incoming)
       IN  /\ link' = Returned("prepare_to_send", r, <<>>)
           /\ incoming' = r.rest
    /\ UNCHANGED fvars

\* rr10.ready_to_receive()
ReadyToReceive ==
    /\ Len(incoming) >= 1
    /\ \E n \in WriteCounts(<<HOST_READY_TO_RECEIVE>>) :
         LET r == ready_to_receive(incoming, n)
         IN  /\ link' = Returned("ready_to_receive", r, <<>>)
             /\ incoming' = r.rest
    /\ UNCHANGED fvars

\* rr10.send(message): the count serial.write reports, 0 when prepare_to_send
\* returns False; an exception of prepare_to_send leaves send.
Send ==
    /\ alive
    /\ Len(incoming) >= 1
    /\ \E n \in WriteCounts(frame) :
         LET r == prepare_to_send(incoming)
         IN  /\ link' =
                 IF r.result = "True"
                 THEN Returned("send", [r EXCEPT !.result = "ok",
                                                 !.writes = Append(r.writes, frame),
                                                 !.counts = Append(r.counts, n)],
                               <<n>>)
                 ELSE IF r.result = "False"
                 THEN Returned("send", [r EXCEPT !.result = "ok"], <<0>>)
                 ELSE Returned("send", r, <<>>)
             /\ incoming' = r.rest
    /\ UNCHANGED fvars

\* rr10.receive(): RR10 has no method prepare_to_receive, so the attribute
\* lookup raises before anything is read or written.
Receive ==
    /\ "prepare_to_receive" \notin RR10Methods
    /\ link' = [op |-> "receive", result |-> "AttributeError", reads |-> <<>>,
                writes |-> <<>>, counts |-> <<>>, stream |-> incoming,
                returned |-> <<>>]
    /\ UNCHANGED incoming
    /\ UNCHANGED fvars

Next ==
    \/ New
    \/ Version
    \/ Test
    \/ FromBytes
    \/ SetCommand
    \/ SetParameters
    \/ GetParameters
    \/ ViewSetItem
    \/ ViewAppend

Spec == Init /\ [][Next]_vars

(***************************************************************************)
(* The handshake on its own: the caller holds a Message built by version() *)
(* or test(), and the reader is about to yield some bytes.                 *)
(***************************************************************************)
Byte == 0..255
Sentinels == {HOST_READY_TO_SEND, READER_READY_TO_RECEIVE, READER_READY_TO_SEND,
              HOST_READY_TO_RECEIVE}

\* What the reader yields: any one byte; two sentinels; a sentinel (or a zero
\* byte) and then the bytes of a Message.
Streams ==
    {<<b>> : b \in Byte}
    \cup {<<b, c>> : b \in Sentinels, c \in Sentinels}
    \cup {<<b>> \o m : b \in Sentinels \cup {0}, m \in {version.buf, test.buf}}

LinkInit ==
    /\ \E built \in {<<3, <<>>, version>>, <<1, <<5, 10>>, test>>} :
         /\ alive = TRUE
         /\ frame = built[3].buf
         /\ cache = View(built[2])
         /\ hist = Call("new", built[1], built[2], built[3].err, <<>>)
    /\ held = NoView
    /\ same = FALSE
    /\ ncalls = 1
    /\ incoming \in Streams
    /\ link = Idle

LinkNext ==
    \/ PrepareToSend
    \/ ReadyToReceive
    \/ Send
    \/ Receive

LinkSpec == LinkInit /\ [][LinkNext]_vars

(***************************************************************************)
(* Construction on its own: a Message is built from any opcode and from    *)
(* parameters of every length up to MAX_LENGTH, then parsed back.          *)
(***************************************************************************)
BuildCommands == get_commands \cup {0, 4, 5, 16, 30, 31, 34, 255}
BuildParams ==
    {Ramp(n, 1) : n \in 0..MAX_LENGTH}
    \cup {Fill(n, 255) : n \in {MAX_PARAMETERS, MAX_PARAMETERS + 1}}

\* Message(cmd, *parameters)
BuildNew ==
    /\ ncalls = 0
    /\ \E cmd \in BuildCommands, value \in BuildParams :
         Constructed(new(cmd, value), "new", cmd, value, View(value))
    /\ UNCHANGED lvars

\* Message(raw), raw the bytes of the Message just built, as they are or with
\* one byte replaced; hist keeps the arguments the Message was built from.
Reparse ==
    /\ alive
    /\ hist.op = "new"
    /\ \E raw \in RawInputs :
         LET r == from_bytes(raw)
         IN  /\ hist' = [op |-> "reparse", cmd |-> hist.cmd, params |-> hist.arg,
                         arg |-> raw, result |-> r.err, before |-> frame]
             /\ IF r.err = "ok"
                THEN /\ frame' = r.buf
                     /\ cache' = NoView
                     /\ held' = NoView
                     /\ same' = FALSE
                ELSE UNCHANGED <<frame, cache, held, same>>
    /\ ncalls' = ncalls + 1
    /\ UNCHANGED alive
    /\ UNCHANGED lvars

BuildNext ==
    \/ BuildNew
    \/ Reparse

BuildSpec == Init /\ [][BuildNext]_vars

(***************************************************************************)
(* Properties.                                                             *)
(***************************************************************************)
\* The bytes of f at Python offsets 2..n-2.
Payload(f) == SubSeq(f, INDEX_PARAMETERS + 1, Len(f) - 2)

\* f and g have the same length and differ at Python offset k and nowhere else.
DiffersOnlyAt(f, g, k) ==
    /\ Len(f) = Len(g)
    /\ k + 1 \in 1..Len(f)
    /\ \A i \in 1..Len(f) : (f[i] # g[i]) <=> (i = k + 1)

\* C1: whenever the caller holds a Message, its last two bytes are the sum
\* of all the bytes before them, modulo 65536, low byte first.
C1_ChecksumInvariant ==
    alive =>
      /\ Len(frame) >= 2
      /\ LET t == Sum(SubSeq(frame, 1, Len(frame) - 2)) % 65536
         IN  /\ frame[Len(frame) - 1] = t % 256
             /\ frame[Len(frame)] = t \div 256

\* C1 witness: an append through the ParametersArray has changed the Message.
C1_Witness ==
    /\ alive
    /\ hist.op = "append"
    /\ hist.result = "ok"
    /\ Len(frame) = Len(hist.before) + 1

\* C2: whenever the caller holds a Message, its first byte is the number of
\* its bytes.
C2_LengthInvariant ==
    alive => (Len(frame) >= 1 /\ frame[1] = Len(frame))

\* C2 witness: the parameters setter has changed the size of the Message.
C2_Witness ==
    /\ alive
    /\ hist.op = "set_parameters"
    /\ hist.result = "ok"
    /\ Len(frame) > Len(hist.before)

\* C3: the parameters setter, given at most MAX_PARAMETERS bytes on a Message
\* of at least MIN_LENGTH bytes, succeeds whether the payload grows, shrinks
\* or keeps its length; the size changes by the difference of the payload
\* lengths, the length byte is the new size, and the getter returns the new
\* payload.
C3_SetParametersResizes ==
    (/\ hist.op = "set_parameters"
     /\ Len(hist.before) >= MIN_LENGTH
     /\ Len(hist.arg) <= MAX_PARAMETERS)
    => /\ hist.result = "ok"
       /\ Len(frame) - Len(hist.before) = Len(hist.arg) - Len(Payload(hist.before))
       /\ frame[1] = Len(hist.arg) + 4
       /\ parameters(frame, cache).val = hist.arg

\* C4: parsing the bytes of a Message just built from a command and parameters
\* succeeds and gives the same bytes, the same command and the same parameters.
C4_RoundTrip ==
    (hist.op = "reparse" /\ hist.arg = hist.before)
    => /\ hist.result = "ok"
       /\ frame = hist.before
       /\ command(frame) = hist.cmd
       /\ parameters(frame, cache).val = hist.params

\* C4 witness: a Message with MAX_PARAMETERS parameters has been parsed back.
C4_Witness ==
    /\ hist.op = "reparse"
    /\ hist.arg = hist.before
    /\ hist.result = "ok"
    /\ Len(hist.params) = MAX_PARAMETERS

\* C5: building a Message from a registered opcode raises TooManyParameters
\* and gives no Message for 252 parameters or more, and for 0..251 parameters
\* gives a Message of that many bytes plus 4.
C5_NewParameterLimit ==
    (hist.op = "new" /\ hist.cmd \in get_commands)
    => IF Len(hist.arg) >= 252
       THEN hist.result = "TooManyParameters" /\ ~alive
       ELSE hist.result = "ok" /\ alive /\ Len(frame) = Len(hist.arg) + 4

\* C5 witness: a registered opcode with 252 parameters has been refused.
C5_Witness ==
    /\ hist.op = "new"
    /\ hist.cmd \in get_commands
    /\ Len(hist.arg) = 252
    /\ hist.result = "TooManyParameters"

\* C6: parsing the bytes of the held Message with one checksum byte replaced
\* raises ChecksumMismatch, with the length byte replaced LengthMismatch, and
\* parsing more than 255 bytes raises FrameTooLong.
C6_FromBytesErrors ==
    hist.op = "from_bytes"
    => /\ Len(hist.arg) > 255 => hist.result = "FrameTooLong"
       /\ (Len(hist.before) >= MIN_LENGTH
           /\ DiffersOnlyAt(hist.arg, hist.before, INDEX_LENGTH))
          => hist.result = "LengthMismatch"
       /\ (Len(hist.before) >= MIN_LENGTH
           /\ \E k \in {Len(hist.before) - 2, Len(hist.before) - 1} :
                DiffersOnlyAt(hist.arg, hist.before, k))
          => hist.result = "ChecksumMismatch"

\* C6 witness: the length byte of a Message changed by an earlier call has
\* been replaced and the bytes refused.
C6_Witness ==
    /\ hist.op = "from_bytes"
    /\ ncalls = 3
    /\ Len(hist.before) > MIN_LENGTH
    /\ DiffersOnlyAt(hist.arg, hist.before, INDEX_LENGTH)
    /\ hist.result = "LengthMismatch"

\* C7: prepare_to_send writes 0x55 once and reads one byte; it returns True
\* exactly when that byte is 0xAA and returns False for any other byte, having
\* written nothing more.
C7_RequestToSend ==
    link.op = "prepare_to_send"
    => /\ link.writes = << <<85>> >>
       /\ Len(link.reads) = 1
       /\ Len(link.reads[1]) = 1
       /\ (link.result = "True") <=> (link.reads[1] = <<170>>)
       /\ (link.reads[1] # <<170>>) => (link.result = "False")

\* C8: ready_to_receive reads one byte before any write; for 0xA5 it writes
\* 0x5A and, the byte being written, returns True; for any other byte it
\* returns False and writes nothing.
C8_ReadyToReceive ==
    link.op = "ready_to_receive"
    => /\ Len(link.reads) = 1
       /\ Len(link.reads[1]) = 1
       /\ (link.reads[1] = <<165>>)
          => /\ link.writes = << <<90>> >>
             /\ (link.counts = <<1>>) => (link.result = "True")
       /\ (link.reads[1] # <<165>>)
          => (link.result = "False" /\ link.writes = <<>>)

\* C9: when the reader yields 0xA5 and then the bytes of a Message, receive
\* returns that Message, having written 0x5A and read the sentinel and then
\* every byte of the Message and no more.
C9_ReceiveReturnsFrame ==
    (/\ link.op = "receive"
     /\ Len(link.stream) > MIN_LENGTH
     /\ link.stream[1] = 165
     /\ from_bytes(Tail(link.stream)).err = "ok")
    => /\ link.result = "ok"
       /\ link.returned = Tail(link.stream)
       /\ link.writes = << <<90>> >>
       /\ incoming = <<>>

\* C10: a Message the caller holds has 4..255 bytes, a length byte in 4..255
\* and at most 251 parameter bytes; no sequence of fewer than 4 bytes is
\* parsed into a Message.
C10_LengthRange ==
    /\ alive => /\ Len(frame) >= 4
                /\ Len(frame) <= 255
                /\ frame[1] >= 4
                /\ frame[1] <= 255
                /\ Len(Payload(frame)) <= 251
    /\ (hist.op = "from_bytes" /\ hist.result = "ok") => Len(hist.arg) >= 4

\* C11: the command byte of a Message returned by new, from_bytes or the
\* command setter is a registered opcode; new and the command setter raise
\* InvalidCommand for an opcode that is not registered and accept one that is.
C11_CommandRegistered ==
    /\ (hist.op \in {"new", "from_bytes", "set_command"} /\ hist.result = "ok")
       => command(frame) \in {1, 2, 3, 6, 7, 8, 9, 10, 11, 12, 13, 14, 15, 32, 33}
    /\ (hist.op \in {"new", "set_command"}
        /\ hist.cmd \notin {1, 2, 3, 6, 7, 8, 9, 10, 11, 12, 13, 14, 15, 32, 33})
       => hist.result = "InvalidCommand"
    /\ (hist.op = "set_command"
        /\ hist.cmd \in {1, 2, 3, 6, 7, 8, 9, 10, 11, 12, 13, 14, 15, 32, 33})
       => hist.result = "ok"

\* C12 as stated: Message.version() has the bytes 04 03 04 00.
C12_VersionBytesAsStated ==
    hist.op = "version" => (hist.result = "ok" /\ frame = <<4, 3, 4, 0>>)

\* C12: Message.version() has the bytes 04 03 07 00: the checksum 0x0007 is
\* the sum of the length byte and the command byte.
C12_VersionBytes ==
    hist.op = "version" => (hist.result = "ok" /\ alive /\ frame = <<4, 3, 7, 0>>)

\* C12 witness: Message.version() has returned a Message.
C12_Witness ==
    /\ hist.op = "version"
    /\ hist.result = "ok"
    /\ alive
    /\ ncalls = 1

\* C13: send writes the bytes of the Message only after it has written 0x55
\* and read 0xAA, and then once; for any other byte read it writes nothing
\* but 0x55 and returns 0.
C13_SendGating ==
    link.op = "send"
    => /\ Len(link.reads) = 1
       /\ Len(link.writes) >= 1
       /\ link.writes[1] = <<85>>
       /\ (link.reads[1] = <<170>>) => (link.writes = << <<85>>, frame >>)
       /\ (link.reads[1] # <<170>>)
          => /\ link.writes = << <<85>> >>
             /\ link.result = "ok"
             /\ link.returned = <<0>>

\* The calls that change the Message the caller holds.
Mutators == {"set_command", "set_parameters", "setitem", "append"}

\* C14: a command setter that raises InvalidCommand and a parameters setter
\* that raises TooManyParameters leave every byte of the Message as it was,
\* with its length byte and its checksum still right.
C14_RejectedUnchanged ==
    (/\ hist.op \in {"set_command", "set_parameters"}
     /\ hist.result \in {"InvalidCommand", "TooManyParameters"})
    => /\ frame = hist.before
       /\ frame[1] = Len(frame)
       /\ checksum(frame) = get_checksum(frame)

\* C14 witness: the command setter has refused an opcode on a Message with
\* parameters.
C14_Witness ==
    /\ hist.op = "set_command"
    /\ hist.result = "InvalidCommand"
    /\ Len(frame) > MIN_LENGTH

\* The command setter changes nothing but the byte at offset 1 and the two
\* checksum bytes.
SetCommandEffect ==
    (hist.op = "set_command" /\ hist.result = "ok")
    => /\ Len(frame) = Len(hist.before)
       /\ frame[1] = hist.before[1]
       /\ Payload(frame) = Payload(hist.before)
       /\ \A i \in 1..Len(frame) :
            (frame[i] # hist.before[i])
            => i \in {INDEX_COMMAND + 1, Len(frame) - 1, Len(frame)}

\* C15 as stated: the effect of the command setter, and among the calls on a
\* Message only set_parameters changes its size.
C15_OnlySetParametersResizes ==
    /\ SetCommandEffect
    /\ (hist.op \in Mutators /\ Len(frame) # Len(hist.before))
       => hist.op = "set_parameters"

\* C15: the effect of the command setter, and among the calls on a Message
\* only those that run the parameters setter change its size: set_parameters
\* itself, and an append or item assignment through the ParametersArray.
C15_OnlyParametersSetterResizes ==
    /\ SetCommandEffect
    /\ (hist.op \in Mutators /\ Len(frame) # Len(hist.before))
       => hist.op \in {"set_parameters", "setitem", "append"}

\* C15 witness: the command setter has changed the opcode of a Message with
\* parameters.
C15_Witness ==
    /\ hist.op = "set_command"
    /\ hist.result = "ok"
    /\ Len(frame) > MIN_LENGTH
    /\ command(frame) # command(hist.before)

\* C16: when 0xA5 was read and serial.write reports less than 1 byte,
\* ready_to_receive fails with an outcome that is not the one a wrong first
\* byte is answered with (return False).
C16_ShortWriteDistinct ==
    (/\ link.op = "ready_to_receive"
     /\ link.reads = << <<165>> >>
     /\ link.counts # <<1>>)
    => link.result \notin {"True", "False"}

\* C17: no call raises OverflowError, and the bytes a checksum is computed
\* over sum to at most 65535, the checksum being that sum, low byte first.
C17_ChecksumNeverFaults ==
    /\ hist.result # "OverflowError"
    /\ alive
       => LET t == Sum(SubSeq(frame, 1, Len(frame) - 2))
          IN  /\ t <= 65535
              /\ checksum(frame) = <<t % 256, (t \div 256) % 256>>

\* C17 witness: a Message of MAX_LENGTH bytes whose parameters are all 255.
C17_Witness ==
    /\ alive
    /\ Len(frame) = MAX_LENGTH
    /\ Sum(SubSeq(frame, 1, Len(frame) - 2)) > 64000

\* C18: what the parameters getter returns is the bytes of the Message at
\* offsets 2..n-2.
C18_ViewConsistent ==
    alive => parameters(frame, cache).val = Payload(frame)

====
